---------------------------- MODULE Spec2Model ----------------------------
(***************************************************************************)
(* Model of weather.py: the clothing-advice rules (get_clothing_advice),   *)
(* the spoken-report template (generate_weather_speech), the city-variant  *)
(* fetch loop (get_weather / get_forecast) and the session bookkeeping of   *)
(* the Streamlit script.                                                   *)
(*                                                                         *)
(* Text is modelled by TLA+ strings, read character by character.          *)
(* Temperatures are integers counting tenths of a degree Celsius, so that  *)
(* the one-decimal formatting of the report is exact.                      *)
(***************************************************************************)
EXTENDS Integers, Sequences, FiniteSets, TLC

(***************************************************************************)
(* Bounds of the model.                                                    *)
(***************************************************************************)
\* Condition descriptions are phrases of at most MaxWords words.
MaxWords == 2
\* Temperatures lie within TempSpread tenths of a degree of a band threshold.
TempSpread == 1
\* Humidities lie within HumSpread percent of the humidity threshold.
HumSpread == 1
\* Advice lists handed to generate_weather_speech have at most MaxAdvice lines.
MaxAdvice == 2
\* The script runs at most MaxRuns times.
MaxRuns == 3

(***************************************************************************)
(* Python string operations.                                               *)
(***************************************************************************)
UpperAlpha == "ABCDEFGHIJKLMNOPQRSTUVWXYZ"
LowerAlpha == "abcdefghijklmnopqrstuvwxyz"

Char(s, i) == SubSeq(s, i, i)

Tail1(s) == SubSeq(s, 2, Len(s))

LowerOf == [c \in {Char(UpperAlpha, i) : i \in 1..26} |->
              Char(LowerAlpha, CHOOSE i \in 1..26 : Char(UpperAlpha, i) = c)]

UpperOf == [c \in {Char(LowerAlpha, i) : i \in 1..26} |->
              Char(UpperAlpha, CHOOSE i \in 1..26 : Char(LowerAlpha, i) = c)]

LowerChar(c) == IF c \in DOMAIN LowerOf THEN LowerOf[c] ELSE c

UpperChar(c) == IF c \in DOMAIN UpperOf THEN UpperOf[c] ELSE c

IsCased(c) == c \in DOMAIN LowerOf \/ c \in DOMAIN UpperOf

\* str.lower()
RECURSIVE StrLower(_)
StrLower(s) == IF s = "" THEN "" ELSE LowerChar(Char(s, 1)) \o StrLower(Tail1(s))

\* str.upper()
RECURSIVE StrUpper(_)
StrUpper(s) == IF s = "" THEN "" ELSE UpperChar(Char(s, 1)) \o StrUpper(Tail1(s))

\* str.title(): a cased character is upper-cased when it follows an uncased
\* one (or starts the text) and lower-cased when it follows a cased one.
RECURSIVE TitleFrom(_, _)
TitleFrom(s, prevCased) ==
    IF s = "" THEN ""
    ELSE LET c == Char(s, 1) IN
         (IF ~IsCased(c) THEN c
          ELSE IF prevCased THEN LowerChar(c) ELSE UpperChar(c))
         \o TitleFrom(Tail1(s), IsCased(c))

StrTitle(s) == TitleFrom(s, FALSE)

\* str.strip(): leading and trailing blanks removed.
RECURSIVE StripLeft(_)
StripLeft(s) == IF s # "" /\ Char(s, 1) = " " THEN StripLeft(Tail1(s)) ELSE s

RECURSIVE StripRight(_)
StripRight(s) ==
    IF s # "" /\ Char(s, Len(s)) = " " THEN StripRight(SubSeq(s, 1, Len(s) - 1)) ELSE s

StrStrip(s) == StripRight(StripLeft(s))

\* `sub in s`
Contains(s, sub) ==
    \E i \in 1..(Len(s) - Len(sub) + 1) : SubSeq(s, i, i + Len(sub) - 1) = sub

\* Mutant of JoinSpace: the lines are joined last to first.
RECURSIVE JoinSpaceReversed(_)
JoinSpaceReversed(lines) ==
    IF lines = <<>> THEN ""
    ELSE IF Len(lines) = 1 THEN lines[1]
    ELSE JoinSpaceReversed(Tail(lines)) \o " " \o lines[1]

\* " ".join(lines)
RECURSIVE JoinSpace(_)
JoinSpace(lines) ==
    IF lines = <<>> THEN ""
    ELSE IF Len(lines) = 1 THEN lines[1]
    ELSE lines[1] \o " " \o JoinSpace(Tail(lines))

\* Decimal digits of a natural number.
RECURSIVE NatToStr(_)
NatToStr(n) ==
    IF n < 10 THEN Char("0123456789", n + 1)
    ELSE NatToStr(n \div 10) \o Char("0123456789", (n % 10) + 1)

\* f"{x:.1f}" of a value x given in tenths.
FormatTenths(t) ==
    LET a == IF t < 0 THEN -t ELSE t IN
    (IF t < 0 THEN "-" ELSE "") \o NatToStr(a \div 10) \o "." \o NatToStr(a % 10)

\* d degrees, in tenths
Deg(d) == d * 10


(***************************************************************************)
(* State.  The two advisory functions run in activations (one per caller   *)
(* thread); each activation has its own parameters and locals.             *)
(***************************************************************************)
VARIABLES
    pc,            \* pc[f]: where activation f stands
    temp,          \* parameter temp (tenths of a degree)
    condition,     \* parameter condition
    humidity,      \* parameter humidity
    advice,        \* local advice of get_clothing_advice
    stay_indoor,   \* local stay_indoor of get_clothing_advice, parameter of generate_weather_speech
    city,          \* parameter city of generate_weather_speech
    feels_like,    \* parameter feels_like (tenths of a degree)
    advice_list,   \* parameter advice_list
    speech_text,   \* local speech_text
    ret,           \* ret[f]: what activation f returned
    returns        \* every (function, arguments, value) returned so far

callVars == <<pc, temp, condition, humidity, advice, stay_indoor, city,
              feels_like, advice_list, speech_text, ret, returns>>

\* The Streamlit script: its session state, its locals and the fetch loops.
VARIABLES
    session_state,    \* st.session_state: a dictionary from keys to values
    spc,              \* where the script stands
    run,              \* script runs started so far
    search_run,       \* the run that made the latest search
    input_city,       \* local city (the text input), of the run in progress
    weather_data,     \* local weather_data
    forecast_data,    \* local forecast_data
    city_variations,  \* local city_variations of the fetch in progress
    requests,         \* the requests the fetch in progress has issued, with their answers
    screen            \* what the latest run displayed

shellVars == <<session_state, spc, run, search_run, input_city, weather_data,
               forecast_data, city_variations, requests, screen>>

vars == <<callVars, shellVars>>

Frames == {1, 2}

NoReturn == [kind |-> "none"]

\* Python's None
NoneVal == [py |-> "None"]

\* No call in progress; the script has not run yet, the session is empty.
Init ==
    /\ pc = [f \in Frames |-> "idle"]
    /\ temp = [f \in Frames |-> 0]
    /\ condition = [f \in Frames |-> ""]
    /\ humidity = [f \in Frames |-> 0]
    /\ advice = [f \in Frames |-> <<>>]
    /\ stay_indoor = [f \in Frames |-> FALSE]
    /\ city = [f \in Frames |-> ""]
    /\ feels_like = [f \in Frames |-> 0]
    /\ advice_list = [f \in Frames |-> <<>>]
    /\ speech_text = [f \in Frames |-> ""]
    /\ ret = [f \in Frames |-> NoReturn]
    /\ returns = {}
    /\ session_state = <<>>
    /\ spc = "waiting"
    /\ run = 0
    /\ search_run = 0
    /\ input_city = ""
    /\ weather_data = NoneVal
    /\ forecast_data = NoneVal
    /\ city_variations = <<>>
    /\ requests = <<>>
    /\ screen = [kind |-> "nothing"]

\* Mutant of Activation: advice and stay_indoor are module-level, shared
\* by all calls.
ActivationShared(f) == 1

\* The storage of activation f's locals: every call has its own.
Activation(f) == f

(***************************************************************************)
(* get_clothing_advice                                                     *)
(***************************************************************************)
ExtremeColdLine == "It's extremely cold outside. Wear heavy winter coat, thermal layers, gloves, scarf, and winter hat."
FreezingLine == "It's freezing cold. Wear a heavy jacket, warm layers, gloves, and a hat."
ColdLine == "It's quite cold. Wear a warm jacket, long sleeves, and consider bringing a scarf."
CoolLine == "It's cool outside. A light jacket or sweater would be comfortable."
MildLine == "The weather is mild. A light sweater or long sleeves should be perfect."
PleasantLine == "It's pleasant outside. Comfortable clothing like a t-shirt and light pants works well."
WarmLine == "It's warm. Wear light, breathable clothing like shorts and t-shirts."
HotLine == "It's hot outside. Wear minimal, light-colored, breathable clothing and stay hydrated."
ExtremeHotLine == "It's extremely hot! Wear very light clothing, stay hydrated, and avoid prolonged sun exposure."
UmbrellaLine == "Don't forget your umbrella and waterproof jacket!"
SnowLine == "Wear waterproof boots and be careful of slippery surfaces."
StormLine == "There's a storm warning. It's safer to stay indoors if possible!"
FogLine == "Visibility is low. Drive carefully and wear visible clothing."
HumidityLine == "High humidity today. Wear moisture-wicking fabrics to stay comfortable."

\* Mutant of TemperatureRule: the last comparison is <= 35, so that 35.0
\* degrees counts as hot instead of extremely hot.
TemperatureRuleHotInclusive(t, stay) ==
    IF t < Deg(-10) THEN [line |-> ExtremeColdLine, stay_indoor |-> TRUE]
    ELSE IF t < Deg(0) THEN [line |-> FreezingLine, stay_indoor |-> stay]
    ELSE IF t < Deg(10) THEN [line |-> ColdLine, stay_indoor |-> stay]
    ELSE IF t < Deg(15) THEN [line |-> CoolLine, stay_indoor |-> stay]
    ELSE IF t < Deg(20) THEN [line |-> MildLine, stay_indoor |-> stay]
    ELSE IF t < Deg(25) THEN [line |-> PleasantLine, stay_indoor |-> stay]
    ELSE IF t < Deg(30) THEN [line |-> WarmLine, stay_indoor |-> stay]
    ELSE IF t <= Deg(35) THEN [line |-> HotLine, stay_indoor |-> stay]
    ELSE [line |-> ExtremeHotLine, stay_indoor |-> TRUE]

\* Mutant of TemperatureRule: the cool band is tested with <= 15, so that
\* 15.0 degrees counts as cool instead of mild.
TemperatureRuleCoolInclusive(t, stay) ==
    IF t < Deg(-10) THEN [line |-> ExtremeColdLine, stay_indoor |-> TRUE]
    ELSE IF t < Deg(0) THEN [line |-> FreezingLine, stay_indoor |-> stay]
    ELSE IF t < Deg(10) THEN [line |-> ColdLine, stay_indoor |-> stay]
    ELSE IF t <= Deg(15) THEN [line |-> CoolLine, stay_indoor |-> stay]
    ELSE IF t < Deg(20) THEN [line |-> MildLine, stay_indoor |-> stay]
    ELSE IF t < Deg(25) THEN [line |-> PleasantLine, stay_indoor |-> stay]
    ELSE IF t < Deg(30) THEN [line |-> WarmLine, stay_indoor |-> stay]
    ELSE IF t < Deg(35) THEN [line |-> HotLine, stay_indoor |-> stay]
    ELSE [line |-> ExtremeHotLine, stay_indoor |-> TRUE]

\* Lines 167-187: the if/elif chain on temp; the line appended and the
\* value of stay_indoor afterwards.
TemperatureRule(t, stay) ==
    IF t < Deg(-10) THEN [line |-> ExtremeColdLine, stay_indoor |-> TRUE]
    ELSE IF t < Deg(0) THEN [line |-> FreezingLine, stay_indoor |-> stay]
    ELSE IF t < Deg(10) THEN [line |-> ColdLine, stay_indoor |-> stay]
    ELSE IF t < Deg(15) THEN [line |-> CoolLine, stay_indoor |-> stay]
    ELSE IF t < Deg(20) THEN [line |-> MildLine, stay_indoor |-> stay]
    ELSE IF t < Deg(25) THEN [line |-> PleasantLine, stay_indoor |-> stay]
    ELSE IF t < Deg(30) THEN [line |-> WarmLine, stay_indoor |-> stay]
    ELSE IF t < Deg(35) THEN [line |-> HotLine, stay_indoor |-> stay]
    ELSE [line |-> ExtremeHotLine, stay_indoor |-> TRUE]

\* Line 190
ConditionLower(c) == StrLower(c)

\* Mutant of ConditionRule: the storm test comes before the rain test.
ConditionRuleStormFirst(c, stay) ==
    LET condition_lower == ConditionLower(c) IN
    IF Contains(condition_lower, "storm") \/ Contains(condition_lower, "thunder")
    THEN [lines |-> <<StormLine>>, stay_indoor |-> TRUE]
    ELSE IF Contains(condition_lower, "rain") \/ Contains(condition_lower, "drizzle")
    THEN [lines |-> <<UmbrellaLine>>, stay_indoor |-> stay]
    ELSE IF Contains(condition_lower, "snow")
    THEN [lines |-> <<SnowLine>>, stay_indoor |-> stay]
    ELSE IF Contains(condition_lower, "fog") \/ Contains(condition_lower, "mist")
    THEN [lines |-> <<FogLine>>, stay_indoor |-> stay]
    ELSE [lines |-> <<>>, stay_indoor |-> stay]

\* Mutant of ConditionRule: every branch assigns stay_indoor, the branches
\* other than the storm one assigning False.
ConditionRuleAssigns(c, stay) ==
    LET condition_lower == ConditionLower(c) IN
    IF Contains(condition_lower, "rain") \/ Contains(condition_lower, "drizzle")
    THEN [lines |-> <<UmbrellaLine>>, stay_indoor |-> FALSE]
    ELSE IF Contains(condition_lower, "snow")
    THEN [lines |-> <<SnowLine>>, stay_indoor |-> FALSE]
    ELSE IF Contains(condition_lower, "storm") \/ Contains(condition_lower, "thunder")
    THEN [lines |-> <<StormLine>>, stay_indoor |-> TRUE]
    ELSE IF Contains(condition_lower, "fog") \/ Contains(condition_lower, "mist")
    THEN [lines |-> <<FogLine>>, stay_indoor |-> FALSE]
    ELSE [lines |-> <<>>, stay_indoor |-> stay]

\* Lines 191-199: the if/elif chain on condition_lower; the lines appended
\* and the value of stay_indoor afterwards.
ConditionRule(c, stay) ==
    LET condition_lower == ConditionLower(c) IN
    IF Contains(condition_lower, "rain") \/ Contains(condition_lower, "drizzle")
    THEN [lines |-> <<UmbrellaLine>>, stay_indoor |-> stay]
    ELSE IF Contains(condition_lower, "snow")
    THEN [lines |-> <<SnowLine>>, stay_indoor |-> stay]
    ELSE IF Contains(condition_lower, "storm") \/ Contains(condition_lower, "thunder")
    THEN [lines |-> <<StormLine>>, stay_indoor |-> TRUE]
    ELSE IF Contains(condition_lower, "fog") \/ Contains(condition_lower, "mist")
    THEN [lines |-> <<FogLine>>, stay_indoor |-> stay]
    ELSE [lines |-> <<>>, stay_indoor |-> stay]

\* Mutant of HumidityHigh: the comparison is >= 80.
HumidityHighInclusive(h) == h >= 80

\* Line 202
HumidityHigh(h) == h > 80

\* Mutant of HumidityRule: the humidity line is inserted at the front.
HumidityRuleInFront(lines, h) ==
    IF HumidityHigh(h) THEN <<HumidityLine>> \o lines ELSE lines

\* Lines 202-203: the advice list after the humidity rule.
HumidityRule(lines, h) == IF HumidityHigh(h) THEN Append(lines, HumidityLine) ELSE lines

\* Lines 162-165: entry; advice = [], stay_indoor = False.
CallAdvice(f, t, c, h) ==
    /\ pc[f] = "idle"
    /\ pc' = [pc EXCEPT ![f] = "temperature_rule"]
    /\ temp' = [temp EXCEPT ![f] = t]
    /\ condition' = [condition EXCEPT ![f] = c]
    /\ humidity' = [humidity EXCEPT ![f] = h]
    /\ advice' = [advice EXCEPT ![Activation(f)] = <<>>]
    /\ stay_indoor' = [stay_indoor EXCEPT ![Activation(f)] = FALSE]
    /\ UNCHANGED <<city, feels_like, advice_list, speech_text, ret, returns>>
    /\ UNCHANGED shellVars

\* Lines 167-187
TemperatureStep(f) ==
    /\ pc[f] = "temperature_rule"
    /\ LET r == TemperatureRule(temp[f], stay_indoor[Activation(f)]) IN
       /\ advice' = [advice EXCEPT ![Activation(f)] = Append(@, r.line)]
       /\ stay_indoor' = [stay_indoor EXCEPT ![Activation(f)] = r.stay_indoor]
    /\ pc' = [pc EXCEPT ![f] = "condition_rule"]
    /\ UNCHANGED <<temp, condition, humidity, city, feels_like, advice_list,
                   speech_text, ret, returns>>
    /\ UNCHANGED shellVars

\* Lines 189-199
ConditionStep(f) ==
    /\ pc[f] = "condition_rule"
    /\ LET r == ConditionRule(condition[f], stay_indoor[Activation(f)]) IN
       /\ advice' = [advice EXCEPT ![Activation(f)] = @ \o r.lines]
       /\ stay_indoor' = [stay_indoor EXCEPT ![Activation(f)] = r.stay_indoor]
    /\ pc' = [pc EXCEPT ![f] = "humidity_rule"]
    /\ UNCHANGED <<temp, condition, humidity, city, feels_like, advice_list,
                   speech_text, ret, returns>>
    /\ UNCHANGED shellVars

\* Lines 201-203
HumidityStep(f) ==
    /\ pc[f] = "humidity_rule"
    /\ advice' = [advice EXCEPT ![Activation(f)] = HumidityRule(@, humidity[f])]
    /\ pc' = [pc EXCEPT ![f] = "advice_return"]
    /\ UNCHANGED <<temp, condition, humidity, stay_indoor, city, feels_like,
                   advice_list, speech_text, ret, returns>>
    /\ UNCHANGED shellVars

\* Line 205: return advice, stay_indoor
AdviceReturn(f) ==
    /\ pc[f] = "advice_return"
    /\ LET v == [kind |-> "advice", advice |-> advice[Activation(f)],
                 stay_indoor |-> stay_indoor[Activation(f)]] IN
       /\ ret' = [ret EXCEPT ![f] = v]
       /\ returns' = returns \cup
              {[fn |-> "get_clothing_advice",
                args |-> <<temp[f], condition[f], humidity[f]>>,
                value |-> v]}
    /\ pc' = [pc EXCEPT ![f] = "returned"]
    /\ UNCHANGED <<temp, condition, humidity, advice, stay_indoor, city,
                   feels_like, advice_list, speech_text>>
    /\ UNCHANGED shellVars

(***************************************************************************)
(* Inputs of get_clothing_advice.                                          *)
(***************************************************************************)
Thresholds == {-10, 0, 10, 15, 20, 25, 30, 35}

\* Temperatures around every threshold, and two far from all of them.
Temps == {Deg(b) + d : b \in Thresholds, d \in (0 - TempSpread)..TempSpread}
             \cup {Deg(-90), Deg(60)}

Humidities == {h \in (80 - HumSpread)..(80 + HumSpread) : h >= 0}

Words == {"Rain", "drizzle", "SNOW", "Storm", "Thunder", "fog", "Mist", "Clear"}

RECURSIVE Phrases(_)
Phrases(n) ==
    IF n = 0 THEN {""}
    ELSE LET shorter == Phrases(n - 1) IN
         shorter \cup {IF p = "" THEN w ELSE p \o " " \o w : p \in shorter, w \in Words}

\* Descriptions, in the title case the script passes on (line 298) and in
\* other cases.
Conditions == Phrases(MaxWords)

\* One evaluation of get_clothing_advice, on any input.
NextAdvice ==
    \/ /\ pc[1] = "idle"
       /\ \E t \in Temps, c \in Conditions, h \in Humidities : CallAdvice(1, t, c, h)
    \/ TemperatureStep(1)
    \/ ConditionStep(1)
    \/ HumidityStep(1)
    \/ AdviceReturn(1)

SpecAdvice == Init /\ [][NextAdvice]_vars

(***************************************************************************)
(* generate_weather_speech                                                 *)
(***************************************************************************)
WarningSentence == "Warning! Weather conditions are extreme. It is strongly advised to stay indoors. "
WearSentence == "Here's what you should wear. "

\* Lines 207-208: entry.
CallSpeech(f, cty, t, fl, c, al, stay) ==
    /\ pc[f] = "idle"
    /\ pc' = [pc EXCEPT ![f] = "speech_city"]
    /\ city' = [city EXCEPT ![f] = cty]
    /\ temp' = [temp EXCEPT ![f] = t]
    /\ feels_like' = [feels_like EXCEPT ![f] = fl]
    /\ condition' = [condition EXCEPT ![f] = c]
    /\ advice_list' = [advice_list EXCEPT ![f] = al]
    /\ stay_indoor' = [stay_indoor EXCEPT ![Activation(f)] = stay]
    /\ UNCHANGED <<humidity, advice, speech_text, ret, returns>>
    /\ UNCHANGED shellVars

\* One statement of the body: at `from`, speech_text becomes `text`.
SpeechStep(f, from, to, text) ==
    /\ pc[f] = from
    /\ speech_text' = [speech_text EXCEPT ![Activation(f)] = text]
    /\ pc' = [pc EXCEPT ![f] = to]
    /\ UNCHANGED <<temp, condition, humidity, advice, stay_indoor, city,
                   feels_like, advice_list, ret, returns>>
    /\ UNCHANGED shellVars

\* Line 209
SpeechCity(f) ==
    SpeechStep(f, "speech_city", "speech_temp",
               "Weather report for " \o city[f] \o ". ")

\* Line 210
SpeechTemp(f) ==
    SpeechStep(f, "speech_temp", "speech_feels",
               speech_text[Activation(f)] \o "The current temperature is "
                   \o FormatTenths(temp[f]) \o " degrees Celsius, ")

\* Line 211
SpeechFeels(f) ==
    SpeechStep(f, "speech_feels", "speech_condition",
               speech_text[Activation(f)] \o "but it feels like "
                   \o FormatTenths(feels_like[f]) \o " degrees. ")

\* Line 212
SpeechCondition(f) ==
    SpeechStep(f, "speech_condition", "speech_warning",
               speech_text[Activation(f)] \o "The weather condition is "
                   \o condition[f] \o ". ")

\* Lines 214-215
SpeechWarning(f) ==
    SpeechStep(f, "speech_warning", "speech_wear",
               IF stay_indoor[Activation(f)]
               THEN speech_text[Activation(f)] \o WarningSentence
               ELSE speech_text[Activation(f)])

\* Line 217
SpeechWear(f) ==
    SpeechStep(f, "speech_wear", "speech_return",
               speech_text[Activation(f)] \o WearSentence \o JoinSpace(advice_list[f]))

\* Line 219: return speech_text
SpeechReturn(f) ==
    /\ pc[f] = "speech_return"
    /\ LET v == [kind |-> "speech", text |-> speech_text[Activation(f)]] IN
       /\ ret' = [ret EXCEPT ![f] = v]
       /\ returns' = returns \cup
              {[fn |-> "generate_weather_speech",
                args |-> <<city[f], temp[f], feels_like[f], condition[f],
                           advice_list[f], stay_indoor[Activation(f)]>>,
                value |-> v]}
    /\ pc' = [pc EXCEPT ![f] = "returned"]
    /\ UNCHANGED <<temp, condition, humidity, advice, stay_indoor, city,
                   feels_like, advice_list, speech_text>>
    /\ UNCHANGED shellVars

(***************************************************************************)
(* Inputs of generate_weather_speech.                                      *)
(***************************************************************************)
Cities == {"Paris", "New York"}

SpeechTemps == {-105, -5, 0, 180, 352}

FeelsLikes == {-123, 165}

SpeechConditions == {"Light Rain", "Clear Sky", ""}

AdvicePool == {MildLine, UmbrellaLine, HumidityLine}

RECURSIVE ListsUpTo(_)
ListsUpTo(n) ==
    IF n = 0 THEN {<<>>}
    ELSE LET shorter == ListsUpTo(n - 1) IN
         shorter \cup {Append(l, a) : l \in shorter, a \in AdvicePool}

AdviceLists == ListsUpTo(MaxAdvice)

\* One evaluation of generate_weather_speech, on any input.
NextSpeech ==
    \/ /\ pc[1] = "idle"
       /\ \E cty \in Cities, t \in SpeechTemps, fl \in FeelsLikes,
             c \in SpeechConditions, al \in AdviceLists, stay \in BOOLEAN :
             CallSpeech(1, cty, t, fl, c, al, stay)
    \/ SpeechCity(1)
    \/ SpeechTemp(1)
    \/ SpeechFeels(1)
    \/ SpeechCondition(1)
    \/ SpeechWarning(1)
    \/ SpeechWear(1)
    \/ SpeechReturn(1)

SpecSpeech == Init /\ [][NextSpeech]_vars

(***************************************************************************)
(* Calls of the two functions from concurrent callers, again and again.    *)
(***************************************************************************)
\* The caller takes the returned value; the activation, with its
\* parameters and locals, ends.
TakeResult(f) ==
    /\ pc[f] = "returned"
    /\ pc' = [pc EXCEPT ![f] = "idle"]
    /\ temp' = [temp EXCEPT ![f] = 0]
    /\ condition' = [condition EXCEPT ![f] = ""]
    /\ humidity' = [humidity EXCEPT ![f] = 0]
    /\ advice' = [advice EXCEPT ![Activation(f)] = <<>>]
    /\ stay_indoor' = [stay_indoor EXCEPT ![Activation(f)] = FALSE]
    /\ city' = [city EXCEPT ![f] = ""]
    /\ feels_like' = [feels_like EXCEPT ![f] = 0]
    /\ advice_list' = [advice_list EXCEPT ![f] = <<>>]
    /\ speech_text' = [speech_text EXCEPT ![Activation(f)] = ""]
    /\ ret' = [ret EXCEPT ![f] = NoReturn]
    /\ UNCHANGED returns
    /\ UNCHANGED shellVars

AdviceArgs == {<<-101, "Heavy Snow", 81>>, <<200, "Thunderstorm", 80>>, <<350, "Clear", 81>>}

SpeechArgs == {<<"Paris", 180, 165, "Light Rain", <<CoolLine, UmbrellaLine>>, FALSE>>,
               <<"Paris", 180, 165, "Light Rain", <<CoolLine, UmbrellaLine>>, TRUE>>}

NextCalls ==
    \E f \in Frames :
        \/ /\ pc[f] = "idle"
           /\ \E a \in AdviceArgs : CallAdvice(f, a[1], a[2], a[3])
        \/ /\ pc[f] = "idle"
           /\ \E a \in SpeechArgs : CallSpeech(f, a[1], a[2], a[3], a[4], a[5], a[6])
        \/ TemperatureStep(f)
        \/ ConditionStep(f)
        \/ HumidityStep(f)
        \/ AdviceReturn(f)
        \/ SpeechCity(f)
        \/ SpeechTemp(f)
        \/ SpeechFeels(f)
        \/ SpeechCondition(f)
        \/ SpeechWarning(f)
        \/ SpeechWear(f)
        \/ SpeechReturn(f)
        \/ TakeResult(f)

SpecCalls == Init /\ [][NextCalls]_vars

(***************************************************************************)
(* get_weather, get_forecast and the script around them.                   *)
(***************************************************************************)
\* The int / str values of the field 'cod'.
PyInt(digits) == <<"int", digits>>
PyStr(text) == <<"str", text>>

\* Mutant of CityVariations: the upper-case variant is tried before the
\* title-case one.
CityVariationsUpperFirst(c) ==
    LET city_cleaned == StrStrip(c) IN
    <<city_cleaned, StrUpper(city_cleaned), StrTitle(city_cleaned), StrLower(city_cleaned)>>

\* Lines 31-39 and 60-68
CityVariations(c) ==
    LET city_cleaned == StrStrip(c) IN
    <<city_cleaned, StrTitle(city_cleaned), StrUpper(city_cleaned), StrLower(city_cleaned)>>

\* Lines 25-26
Url(fn) == IF fn = "get_weather" THEN "BASE_URL" ELSE "FORECAST_URL"

\* Lines 55 and 84
NotFound(fn) ==
    [cod |-> IF fn = "get_weather" THEN PyInt("404") ELSE PyStr("404"),
     message |-> "City not found"]

\* What the weather service answers with status 200: the data for query q
\* as of run r (current weather carries cod 200, the forecast cod "200"),
\* or, with body "error", an error document.
Body(fn, q, r, kind) ==
    IF kind = "data"
    THEN [cod |-> IF fn = "get_weather" THEN PyInt("200") ELSE PyStr("200"),
          q |-> q, run |-> r]
    ELSE [cod |-> PyInt("401"), message |-> "Invalid API key."]

\* The ways one requests.get(...) followed by response.json() can end:
\*   data, error   status 200, the body decodes to a document
\*   status        a status other than 200
\*   exception     requests.get raises a RequestException
\*   undecodable   status 200, response.json() raises; the error is a
\*                 RequestException or not, depending on the version of
\*                 requests (caught) or (uncaught)
Outcomes == {"data", "error", "status", "exception",
             "undecodable_caught", "undecodable_uncaught"}

\* What the log of requests keeps of an outcome: status 200 with a document,
\* status 200 with an undecodable body, or no status 200.
Answer(o) ==
    IF o \in {"data", "error"} THEN "document"
    ELSE IF o \in {"undecodable_caught", "undecodable_uncaught"} THEN "undecodable"
    ELSE "failed"

Fetching == spc \in {"get_weather", "get_forecast"}

\* dictionary access
SetKey(d, k, v) == (k :> v) @@ d
Get(d, k, default) == IF k \in DOMAIN d THEN d[k] ELSE default

\* Mutant of SearchStart: weather_loaded is not reset before the fetch.
SearchStartKeepsLoaded(ss, c) ==
    SetKey(SetKey(ss, "last_city", c), "search_attempted", TRUE)

\* Lines 260-262
SearchStart(ss, c) ==
    SetKey(SetKey(SetKey(ss, "last_city", c), "weather_loaded", FALSE),
           "search_attempted", TRUE)

\* Lines 268-275
SearchStore(ss, wd, fd) ==
    IF wd # NoneVal /\ Get(wd, "cod", NoneVal) = PyInt("200")
    THEN SetKey(SetKey(SetKey(SetKey(ss, "weather_data", wd), "forecast_data", fd),
                       "weather_loaded", TRUE),
                "error_data", NoneVal)
    ELSE SetKey(SetKey(ss, "weather_loaded", FALSE), "error_data", wd)

\* Lines 277-356: what the script shows for a session state: the stored
\* weather (with the advice and report computed from it by the two
\* functions above, and the forecast if it has cod "200"), an error
\* message, or nothing.
Display(ss) ==
    IF Get(ss, "weather_loaded", FALSE)
    THEN [kind |-> "weather",
          weather |-> ss["weather_data"],
          forecast |-> IF Get(ss["forecast_data"], "cod", NoneVal) = PyStr("200")
                       THEN ss["forecast_data"] ELSE NoneVal]
    ELSE IF Get(ss, "search_attempted", FALSE) /\ Get(ss, "error_data", NoneVal) # NoneVal
    THEN LET error_data == ss["error_data"]
             error_msg == Get(error_data, "message", "Unknown error") IN
         IF Contains(StrLower(error_msg), "not found")
               \/ Get(error_data, "cod", NoneVal) = PyInt("404")
         THEN [kind |-> "city_not_found", city |-> ss["last_city"]]
         ELSE [kind |-> "error", message |-> error_msg,
               key_hint |-> Contains(error_msg, "Invalid API key")]
    ELSE [kind |-> "nothing"]

\* Line 259
SearchWanted(ss, c, search_button) ==
    /\ c # ""
    /\ StrStrip(c) # ""
    /\ \/ search_button
       \/ "last_city" \notin DOMAIN ss
       \/ ss["last_city"] # c

\* A script run starts, with the text input holding c and the search button
\* pressed or not (the first run has the input's default and no button).
\* Without a search the run goes straight to the display; with one it sets
\* the session keys (lines 260-262) and calls get_weather (line 265).
Rerun(c, search_button) ==
    /\ spc = "waiting"
    /\ run < MaxRuns
    /\ run = 0 => (c = "London" /\ ~search_button)
    /\ run' = run + 1
    /\ IF SearchWanted(session_state, c, search_button)
       THEN /\ session_state' = SearchStart(session_state, c)
            /\ search_run' = run + 1
            /\ input_city' = c
            /\ city_variations' = CityVariations(c)
            /\ requests' = <<>>
            /\ spc' = "get_weather"
            /\ UNCHANGED <<weather_data, forecast_data, screen>>
       ELSE /\ screen' = Display(session_state)
            /\ UNCHANGED <<session_state, search_run, input_city, weather_data,
                           forecast_data, city_variations, requests, spc>>
    /\ UNCHANGED callVars

\* the function returns v to the script
FetchReturns(v) ==
    IF spc = "get_weather"
    THEN weather_data' = v /\ spc' = "call_forecast" /\ UNCHANGED forecast_data
    ELSE forecast_data' = v /\ spc' = "store" /\ UNCHANGED weather_data

\* Lines 41-52 and 70-81: one turn of the loop over city_variations, the
\* request ending in outcome o.
Request(o) ==
    /\ Fetching
    /\ Len(requests) < Len(city_variations)
    /\ LET city_try == city_variations[Len(requests) + 1] IN
       requests' = Append(requests,
                          [url |-> Url(spc), q |-> city_try, answer |-> Answer(o),
                           body |-> IF o \in {"data", "error"}
                                    THEN Body(spc, city_try, run, o) ELSE NoneVal])
    /\ IF o \in {"data", "error"}
       THEN /\ FetchReturns(Body(spc, city_variations[Len(requests) + 1], run, o))
            /\ UNCHANGED <<session_state, screen>>
       ELSE IF o = "undecodable_uncaught"
       THEN /\ spc' = "waiting"
            /\ screen' = [kind |-> "exception"]
            /\ UNCHANGED <<session_state, weather_data, forecast_data>>
       ELSE UNCHANGED <<session_state, spc, weather_data, forecast_data, screen>>
    /\ UNCHANGED <<run, search_run, input_city, city_variations>>
    /\ UNCHANGED callVars

\* Lines 54-55 and 83-84: the loop is over.
ReturnNotFound ==
    /\ Fetching
    /\ Len(requests) = Len(city_variations)
    /\ FetchReturns(NotFound(spc))
    /\ UNCHANGED <<session_state, run, search_run, input_city, city_variations,
                   requests, screen>>
    /\ UNCHANGED callVars

\* Line 266: get_forecast(city) is called.
CallForecast ==
    /\ spc = "call_forecast"
    /\ city_variations' = CityVariations(input_city)
    /\ requests' = <<>>
    /\ spc' = "get_forecast"
    /\ UNCHANGED <<session_state, run, search_run, input_city, weather_data,
                   forecast_data, screen>>
    /\ UNCHANGED callVars

\* Lines 268-356: the result is stored and the page displayed; the run ends.
FinishRun ==
    /\ spc = "store"
    /\ session_state' = SearchStore(session_state, weather_data, forecast_data)
    /\ screen' = Display(session_state')
    /\ spc' = "waiting"
    /\ weather_data' = NoneVal
    /\ forecast_data' = NoneVal
    /\ UNCHANGED <<run, search_run, input_city, city_variations, requests>>
    /\ UNCHANGED callVars

CityInputs == {"London", " new york ", "", "  "}

\* The script, run again and again.
Next ==
    \/ /\ spc = "waiting"
       /\ \E c \in CityInputs, search_button \in BOOLEAN : Rerun(c, search_button)
    \/ \E o \in Outcomes : Request(o)
    \/ ReturnNotFound
    \/ CallForecast
    \/ FinishRun

Spec == Init /\ [][Next]_vars

(***************************************************************************)
(* Properties of get_clothing_advice (under SpecAdvice).                   *)
(***************************************************************************)
\* each letter's twin of the other case
OtherCase ==
    [c \in {Char(UpperAlpha, i) : i \in 1..26} \cup {Char(LowerAlpha, i) : i \in 1..26} |->
        CHOOSE d \in {Char(UpperAlpha, i) : i \in 1..26} \cup {Char(LowerAlpha, i) : i \in 1..26} :
            /\ d # c
            /\ \E i \in 1..26 : {c, d} = {Char(UpperAlpha, i), Char(LowerAlpha, i)}]

\* a and b are the same letter, whatever their case
SameLetter(a, b) == a = b \/ (a \in DOMAIN OtherCase /\ OtherCase[a] = b)

\* text c contains keyword kw, case-insensitively
Mentions(c, kw) ==
    \E i \in 1..(Len(c) - Len(kw) + 1) :
        \A j \in 1..Len(kw) : SameLetter(Char(c, i + j - 1), Char(kw, j))

MentionsRain(c) == Mentions(c, "rain") \/ Mentions(c, "drizzle")
MentionsSnow(c) == Mentions(c, "snow")
MentionsStorm(c) == Mentions(c, "storm") \/ Mentions(c, "thunder")
MentionsFog(c) == Mentions(c, "fog") \/ Mentions(c, "mist")

\* The table of temperature bands: lower bound inclusive, upper exclusive,
\* in degrees; a missing bound is marked by hasLo / hasHi.
BandTable ==
    << [hasLo |-> FALSE, lo |-> 0,   hasHi |-> TRUE,  hi |-> -10, line |-> ExtremeColdLine, flag |-> TRUE],
       [hasLo |-> TRUE,  lo |-> -10, hasHi |-> TRUE,  hi |-> 0,   line |-> FreezingLine,    flag |-> FALSE],
       [hasLo |-> TRUE,  lo |-> 0,   hasHi |-> TRUE,  hi |-> 10,  line |-> ColdLine,        flag |-> FALSE],
       [hasLo |-> TRUE,  lo |-> 10,  hasHi |-> TRUE,  hi |-> 15,  line |-> CoolLine,        flag |-> FALSE],
       [hasLo |-> TRUE,  lo |-> 15,  hasHi |-> TRUE,  hi |-> 20,  line |-> MildLine,        flag |-> FALSE],
       [hasLo |-> TRUE,  lo |-> 20,  hasHi |-> TRUE,  hi |-> 25,  line |-> PleasantLine,    flag |-> FALSE],
       [hasLo |-> TRUE,  lo |-> 25,  hasHi |-> TRUE,  hi |-> 30,  line |-> WarmLine,        flag |-> FALSE],
       [hasLo |-> TRUE,  lo |-> 30,  hasHi |-> TRUE,  hi |-> 35,  line |-> HotLine,         flag |-> FALSE],
       [hasLo |-> TRUE,  lo |-> 35,  hasHi |-> FALSE, hi |-> 0,   line |-> ExtremeHotLine,  flag |-> TRUE] >>

InBand(b, t) == (b.hasLo => Deg(b.lo) <= t) /\ (b.hasHi => t < Deg(b.hi))

BandsOf(t) == {i \in DOMAIN BandTable : InBand(BandTable[i], t)}

BandLines == {BandTable[i].line : i \in DOMAIN BandTable}

ConditionLines == {UmbrellaLine, SnowLine, StormLine, FogLine}

IsBandLine(l) == l \in BandLines
IsConditionLine(l) == l \in ConditionLines
IsHumidityLine(l) == l = HumidityLine

Returned == pc[1] = "returned" /\ ret[1].kind = "advice"

\* C1 as stated: stayIndoor is true iff t < -10 or t >= 35 or the condition
\* text contains "storm" or "thunder" (case-insensitively), whatever the
\* humidity.
C1_StayIndoorIffStormAnywhere ==
    Returned =>
        (ret[1].stay_indoor <=>
            \/ temp[1] < Deg(-10)
            \/ temp[1] >= Deg(35)
            \/ MentionsStorm(condition[1]))

\* C1 as amended: stayIndoor is true iff t < -10 or t >= 35 or the condition
\* text contains "storm" or "thunder" and none of "rain", "drizzle", "snow"
\* (the rules that take precedence over the storm rule), case-insensitively,
\* whatever the humidity.
C1_StayIndoorIffStormRuleFires ==
    Returned =>
        (ret[1].stay_indoor <=>
            \/ temp[1] < Deg(-10)
            \/ temp[1] >= Deg(35)
            \/ /\ MentionsStorm(condition[1])
               /\ ~MentionsRain(condition[1])
               /\ ~MentionsSnow(condition[1]))

C1_Witness ==
    /\ Returned
    /\ temp[1] = Deg(20)
    /\ MentionsStorm(condition[1])
    /\ MentionsRain(condition[1])
    /\ humidity[1] = 81
    /\ ~ret[1].stay_indoor

\* C2: exactly one temperature-band line is emitted, that of the one
\* half-open interval of the table containing t; a boundary value selects
\* the band of which it is the inclusive lower bound.
C2_ExactlyOneBand ==
    pc[1] \in {"condition_rule", "humidity_rule", "advice_return", "returned"} =>
        /\ Cardinality(BandsOf(temp[1])) = 1
        /\ \A i \in BandsOf(temp[1]) : advice[1][1] = BandTable[i].line
        /\ Cardinality({i \in DOMAIN advice[1] : IsBandLine(advice[1][i])}) = 1
        /\ \A i \in DOMAIN BandTable :
              (BandTable[i].hasLo /\ temp[1] = Deg(BandTable[i].lo))
                  => advice[1][1] = BandTable[i].line

C2_Witness ==
    /\ Returned
    /\ temp[1] = Deg(15)
    /\ ret[1].advice[1] = MildLine

\* The condition line the precedence (rain or drizzle) > snow > (storm or
\* thunder) > (fog or mist) > none selects.
ExpectedConditionLines(c) ==
    IF MentionsRain(c) THEN <<UmbrellaLine>>
    ELSE IF MentionsSnow(c) THEN <<SnowLine>>
    ELSE IF MentionsStorm(c) THEN <<StormLine>>
    ELSE IF MentionsFog(c) THEN <<FogLine>>
    ELSE <<>>

\* C3: at most one condition line is emitted, the one of the first rule
\* that matches in the precedence (rain or drizzle) > snow > (storm or
\* thunder) > (fog or mist) > none; no lower rule contributes its line.
C3_ConditionPrecedence ==
    pc[1] \in {"humidity_rule", "advice_return", "returned"} =>
        /\ SelectSeq(advice[1], IsConditionLine) = ExpectedConditionLines(condition[1])
        /\ Len(SelectSeq(advice[1], IsConditionLine)) <= 1

C3_Witness ==
    /\ Returned
    /\ MentionsRain(condition[1])
    /\ MentionsStorm(condition[1])
    /\ SelectSeq(ret[1].advice, IsConditionLine) = <<UmbrellaLine>>

\* C4: the humidity line is in the result iff humidity > 80, whichever band
\* and condition rule matched, and the humidity rule leaves stay_indoor as
\* it was.
C4_HumidityLine ==
    /\ [](Returned =>
            ((\E i \in DOMAIN ret[1].advice : IsHumidityLine(ret[1].advice[i]))
                <=> humidity[1] > 80))
    /\ [][pc[1] = "humidity_rule" => stay_indoor'[1] = stay_indoor[1]]_callVars

C4_Witness ==
    /\ Returned
    /\ humidity[1] = 81
    /\ ret[1].advice[Len(ret[1].advice)] = HumidityLine
    /\ ~ret[1].stay_indoor

\* C5: the result has 1 to 3 lines: the temperature-band line first, then
\* the condition line if any, then the humidity line if any.
C5_LineOrder ==
    Returned =>
        LET a == ret[1].advice IN
        /\ Len(a) \in 1..3
        /\ IsBandLine(a[1])
        /\ \A i \in DOMAIN a :
              /\ IsBandLine(a[i]) \/ IsConditionLine(a[i]) \/ IsHumidityLine(a[i])
              /\ IsBandLine(a[i]) => i = 1
              /\ IsConditionLine(a[i]) => i = 2
              /\ IsHumidityLine(a[i]) =>
                    i = Len(a) /\ i = 2 + Len(SelectSeq(a, IsConditionLine))

C5_Witness ==
    /\ Returned
    /\ Len(ret[1].advice) = 3
    /\ IsBandLine(ret[1].advice[1])
    /\ IsConditionLine(ret[1].advice[2])
    /\ IsHumidityLine(ret[1].advice[3])

\* the flag of the temperature band of t
BandFlag(t) == \E i \in BandsOf(t) : BandTable[i].flag

\* the flag of the condition rule that fires on c: only the storm rule has one
ConditionFlag(c) == ExpectedConditionLines(c) = <<StormLine>>

\* C6: over the rule steps of one evaluation stay_indoor never goes from
\* true to false, and the value returned is the band's flag OR the flag of
\* the condition rule that fired.
C6_StayIndoorMonotonic ==
    /\ [][stay_indoor[1] => stay_indoor'[1]]_callVars
    /\ [](Returned =>
            (ret[1].stay_indoor <=> (BandFlag(temp[1]) \/ ConditionFlag(condition[1]))))

C6_Witness ==
    /\ Returned
    /\ temp[1] < Deg(-10)
    /\ SelectSeq(ret[1].advice, IsConditionLine) = <<SnowLine>>
    /\ ret[1].stay_indoor

(***************************************************************************)
(* Properties of generate_weather_speech (under SpecSpeech).               *)
(***************************************************************************)
StartsWith(s, p) == Len(s) >= Len(p) /\ SubSeq(s, 1, Len(p)) = p

Drop(s, n) == SubSeq(s, n + 1, Len(s))

\* text s is exactly the given lines, in their order, one blank between
\* two lines
RECURSIVE IsLinesInOrder(_, _)
IsLinesInOrder(s, lines) ==
    IF lines = <<>> THEN s = ""
    ELSE /\ StartsWith(s, lines[1])
         /\ IF Len(lines) = 1 THEN s = lines[1]
            ELSE /\ StartsWith(Drop(s, Len(lines[1])), " ")
                 /\ IsLinesInOrder(Drop(s, Len(lines[1]) + 1), Tail(lines))

SpeechReturned == pc[1] = "returned" /\ ret[1].kind = "speech"

\* the sentences before the advice lines, for a call's arguments
ReportHead(cty, t, fl, c, stay) ==
    "Weather report for " \o cty \o ". "
    \o "The current temperature is " \o FormatTenths(t) \o " degrees Celsius, "
    \o "but it feels like " \o FormatTenths(fl) \o " degrees. "
    \o "The weather condition is " \o c \o ". "
    \o (IF stay THEN WarningSentence ELSE "")
    \o WearSentence

\* C7: the report is the city sentence, the temperature/feels-like
\* sentence, the condition sentence, the warning sentence iff stay_indoor,
\* the wear sentence, and then the advice lines in the order received,
\* none dropped, duplicated or reordered.
C7_SentenceOrder ==
    SpeechReturned =>
        LET head == ReportHead(city[1], temp[1], feels_like[1], condition[1],
                               stay_indoor[1]) IN
        /\ StartsWith(ret[1].text, head)
        /\ IsLinesInOrder(Drop(ret[1].text, Len(head)), advice_list[1])
        /\ Contains(ret[1].text, WarningSentence) <=> stay_indoor[1]

C7_Witness ==
    /\ SpeechReturned
    /\ stay_indoor[1]
    /\ advice_list[1] = <<MildLine, UmbrellaLine>>
    /\ Contains(ret[1].text, WarningSentence \o WearSentence \o MildLine \o " " \o UmbrellaLine)

(***************************************************************************)
(* Properties of repeated, interleaved calls (under SpecCalls).            *)
(***************************************************************************)
\* C8: any two calls of the same function with identical arguments return
\* identical values, whatever calls happen in between or at the same time,
\* and a step of one call leaves the locals of every other call alone.
C8_Deterministic ==
    /\ [](\A r1 \in returns : \A r2 \in returns :
            (r1.fn = r2.fn /\ r1.args = r2.args) => r1.value = r2.value)
    /\ [][\A f \in Frames :
            pc'[f] = pc[f] =>
                /\ advice'[f] = advice[f]
                /\ stay_indoor'[f] = stay_indoor[f]
                /\ speech_text'[f] = speech_text[f]]_callVars

C8_Witness ==
    /\ pc[1] = "returned"
    /\ pc[2] = "returned"
    /\ ret[1].kind = "advice"
    /\ ret[2] = ret[1]
    /\ <<temp[1], condition[1], humidity[1]>> = <<temp[2], condition[2], humidity[2]>>
    /\ Cardinality(returns) >= 4

(***************************************************************************)
(* Properties of the fetch loop and of the session (under Spec).           *)
(***************************************************************************)
\* the variants of a city name, in the order they are to be tried
ExpectedVariants(c) ==
    <<StrStrip(c), StrTitle(StrStrip(c)), StrUpper(StrStrip(c)), StrLower(StrStrip(c))>>

\* get_weather or get_forecast has returned to the script
FetchReturned == spc \in {"call_forecast", "store"}

ReturnedFn == IF spc = "call_forecast" THEN "get_weather" ELSE "get_forecast"

ReturnedValue == IF spc = "call_forecast" THEN weather_data ELSE forecast_data

\* the requests are one per variant, in the order of the variants, all to
\* the same address, and at most four
RequestsInOrder ==
    /\ Len(requests) <= 4
    /\ LET expected == ExpectedVariants(input_city) IN
       \A i \in DOMAIN requests :
          /\ requests[i].q = expected[i]
          /\ requests[i].url = requests[1].url
    /\ Fetching /\ requests # <<>> => requests[1].url = Url(spc)

\* C9 as stated: the variants are tried in order, one request each; the
\* first request answered with status 200 ends the loop and its payload is
\* returned; only when all four requests have failed is 'City not found'
\* returned; there are at most four requests.
C9_FirstStatus200Returned ==
    /\ RequestsInOrder
    /\ \A i \in DOMAIN requests :
          requests[i].answer # "failed" => i = Len(requests)
    /\ FetchReturned =>
          IF requests # <<>> /\ requests[Len(requests)].answer # "failed"
          THEN ReturnedValue = requests[Len(requests)].body
          ELSE /\ ReturnedValue = NotFound(ReturnedFn)
               /\ Len(requests) = 4

\* C9 as amended: the variants are tried in order, one request each; the
\* first request answered with status 200 and a body that decodes ends the
\* loop and the decoded payload is returned; a request that fails, or is
\* answered with status 200 and a body that does not decode (the decoding
\* error being caught), moves on to the next variant; only when no request
\* of the four has produced a payload is 'City not found' returned; there
\* are at most four requests.
C9_FirstDecodedStatus200Returned ==
    /\ RequestsInOrder
    /\ \A i \in DOMAIN requests :
          requests[i].answer = "document" => i = Len(requests)
    /\ Fetching => \A i \in DOMAIN requests : requests[i].answer # "document"
    /\ FetchReturned =>
          IF requests # <<>> /\ requests[Len(requests)].answer = "document"
          THEN ReturnedValue = requests[Len(requests)].body
          ELSE /\ ReturnedValue = NotFound(ReturnedFn)
               /\ Len(requests) = 4

C9_Witness ==
    /\ spc = "call_forecast"
    /\ Len(requests) = 3
    /\ requests[1].answer = "undecodable"
    /\ requests[2].answer = "failed"
    /\ requests[3].answer = "document"
    /\ input_city = " new york "
    /\ weather_data = [cod |-> PyInt("200"), q |-> "NEW YORK", run |-> run]

Loaded == Get(session_state, "weather_loaded", FALSE)

IsOkWeather(wd) == wd # NoneVal /\ Get(wd, "cod", NoneVal) = PyInt("200")

\* C10: whenever weather_loaded is true, the stored weather_data is the
\* cod-200 result of the fetch of the latest search, made for last_city,
\* and error_data is None; what a finished run displays as weather is that
\* data; and a run whose search did not get a cod-200 result ends with
\* weather_loaded false.
C10_LoadedMeansCurrent ==
    /\ [](Loaded =>
            /\ IsOkWeather(session_state["weather_data"])
            /\ session_state["weather_data"].run = search_run
            /\ \E i \in 1..4 :
                  session_state["weather_data"].q
                      = ExpectedVariants(session_state["last_city"])[i]
            /\ session_state["error_data"] = NoneVal)
    /\ [](spc = "waiting" /\ screen.kind = "weather" =>
            /\ Loaded
            /\ screen.weather = session_state["weather_data"])
    /\ [][(spc # "waiting" /\ spc' = "waiting" /\ ~IsOkWeather(weather_data))
            => ~Get(session_state', "weather_loaded", FALSE)]_shellVars

C10_Witness ==
    /\ spc = "waiting"
    /\ ~Loaded
    /\ "weather_data" \in DOMAIN session_state
    /\ session_state["weather_data"].run < search_run
    /\ session_state["weather_data"].q = "London"
    /\ session_state["last_city"] = " new york "
    /\ screen = [kind |-> "city_not_found", city |-> " new york "]

=============================================================================
